---- MODULE Spec2Model ----
(***************************************************************************)
(* Accession-driven dataset acquisition (FragmentFusion data collection).  *)
(*                                                                         *)
(*   scripts/data_collection/ena/download_ena_cfdna.py   REST backend      *)
(*   scripts/data_collection/ncbi/download_ncbi_cfdna.py tool backend      *)
(*                                                                         *)
(* The remote archive, the transport (wget, fasterq-dump) and the digest   *)
(* tool (md5sum, sha256sum) are the environment: what they return is drawn *)
(* from small sets.  A file is known by its content: Absent, 0 for a file  *)
(* of zero length, 1 and 2 for two different non-empty contents.           *)
(***************************************************************************)
EXTENDS Integers, Sequences, FiniteSets, TLC

\* ------------------------------------------------------------ python values
\* Python's None (a missing XML attribute read with .get)
None == "None"

\* Python truthiness of an optional string: None and "" are falsy
Truthy(x) == x /= None /\ x /= ""

\* a path that does not exist
Absent == -1

\* ------------------------------------------------------------- digest tools
\* what md5sum prints for each content (lower-case hex)
Md5Hex == <<"0cc1", "9e2b">>

\* what sha256sum prints for each content (lower-case hex)
Sha256Hex == <<"b1e9", "7c3a">>

\* the same md5 digests written in upper case, as an archive may publish them
Md5HexUpper == <<"0CC1", "9E2B">>

\* the non-empty contents, each with its digests
Contents == DOMAIN Md5Hex

\* what a path can hold: nothing, an empty file, a content
FileStates == {Absent, 0} \cup Contents

\* str.lower() on the strings of the model
Lower(s) ==
  CASE s = "MD5" -> "md5"
    [] s = "SHA256" -> "sha256"
    [] s = "CRC32" -> "crc32"
    [] \E c \in 1..Len(Md5HexUpper) : s = Md5HexUpper[c] ->
         Md5Hex[CHOOSE c \in 1..Len(Md5HexUpper) : s = Md5HexUpper[c]]
    [] OTHER -> s

\* result.stdout.split()[0] of a digest tool that exited 0
DigestStdout(checksum_method, content) ==
  IF checksum_method = "md5" THEN Md5Hex[content] ELSE Sha256Hex[content]

\* how a run of md5sum / sha256sum ends: exit 0, exit non-zero, or
\* subprocess.run raises (the tool is not installed)
ToolOutcomes == {"exit0", "nonzero", "raised"}

\* -------------------------------------------------------------- file_info
FileNames == {"a.fastq.gz", "b.fastq.gz"}

ChecksumMethods == {None, "", "md5", "MD5", "sha256", "crc32"}

Checksums ==
  {None, ""} \cup {Md5Hex[c] : c \in Contents}
             \cup {Md5HexUpper[c] : c \in Contents}
             \cup {Sha256Hex[c] : c \in Contents}

FileTypes == {"fastq", "fastq.gz", "bam", None}

\* the file_data dictionaries get_sample_runs can build
FileInfos ==
  [filename : FileNames \cup {None}, filetype : FileTypes,
   checksum : Checksums, checksum_method : ChecksumMethods]

\* ENACfDNADownloader._validate_file with a case-insensitive comparison
ValidateIgnoringCase(content, file_info, validate_downloads, tool) ==
  IF ~validate_downloads THEN TRUE
  ELSE IF content = Absent THEN FALSE
  ELSE IF content = 0 THEN FALSE
  ELSE IF Truthy(file_info.checksum) /\ Truthy(file_info.checksum_method)
    THEN LET checksum_method == Lower(file_info.checksum_method)
         IN  IF checksum_method \notin {"md5", "sha256"} THEN TRUE
             ELSE IF tool = "exit0"
               THEN Lower(DigestStdout(checksum_method, content))
                      = Lower(file_info.checksum)
               ELSE TRUE
    ELSE TRUE

\* ENACfDNADownloader._validate_file testing existence before the
\* validate_downloads switch
ValidateExistenceFirst(content, file_info, validate_downloads, tool) ==
  IF content = Absent THEN FALSE
  ELSE IF content = 0 THEN FALSE
  ELSE IF ~validate_downloads THEN TRUE
  ELSE IF Truthy(file_info.checksum) /\ Truthy(file_info.checksum_method)
    THEN LET checksum_method == Lower(file_info.checksum_method)
         IN  IF checksum_method \notin {"md5", "sha256"} THEN TRUE
             ELSE IF tool = "exit0"
               THEN DigestStdout(checksum_method, content) = file_info.checksum
               ELSE TRUE
    ELSE TRUE

\* ENACfDNADownloader._validate_file failing closed on an unknown method
ValidateFailClosed(content, file_info, validate_downloads, tool) ==
  IF ~validate_downloads THEN TRUE
  ELSE IF content = Absent THEN FALSE
  ELSE IF content = 0 THEN FALSE
  ELSE IF Truthy(file_info.checksum) /\ Truthy(file_info.checksum_method)
    THEN LET checksum_method == Lower(file_info.checksum_method)
         IN  IF checksum_method \notin {"md5", "sha256"} THEN FALSE
             ELSE IF tool = "exit0"
               THEN DigestStdout(checksum_method, content) = file_info.checksum
               ELSE TRUE
    ELSE TRUE

\* ENACfDNADownloader._validate_file(file_path, file_info): content is what
\* file_path holds, tool is how the digest tool ends if it is run
_validate_file(content, file_info, validate_downloads, tool) ==
  IF ~validate_downloads THEN TRUE
  ELSE IF content = Absent THEN FALSE
  ELSE IF content = 0 THEN FALSE
  ELSE IF Truthy(file_info.checksum) /\ Truthy(file_info.checksum_method)
    THEN LET checksum_method == Lower(file_info.checksum_method)
         IN  IF checksum_method \notin {"md5", "sha256"} THEN TRUE
             ELSE IF tool = "exit0"
               THEN DigestStdout(checksum_method, content) = file_info.checksum
               ELSE TRUE
    ELSE TRUE

\* ------------------------------------------------------- ENA file transfer
\* how one run of wget ends and what it leaves at --output-document:
\* exit 0 leaves a file; a non-zero exit or a timeout leaves what was there
\* or a partial file; "raised" is subprocess.run raising (wget not installed)
WgetOutcomes(pre) ==
  [kind : {"exit0"}, after : ({0} \cup Contents)]
    \cup [kind : {"nonzero", "timeout"}, after : {pre} \cup (({0} \cup Contents))]
    \cup [kind : {"raised"}, after : {pre}]

\* the fastq directory of the ENA downloader: local_path -> content
FastqDirs == [FileNames -> FileStates]

\* ENACfDNADownloader.download_fastq_file that downloads without looking at
\* the destination first
DownloadAlways(run_accession, filename, file_info, dir, validate_downloads, w, t1, t2) ==
  IF run_accession = None \/ filename = None
    THEN [ret |-> "raised", dir |-> dir, wget |-> FALSE]
    ELSE
      CASE w.kind = "exit0" ->
             IF _validate_file(w.after, file_info, validate_downloads, t2)
               THEN [ret |-> "True",
                     dir |-> [dir EXCEPT ![filename] = w.after], wget |-> TRUE]
               ELSE [ret |-> "False",
                     dir |-> [dir EXCEPT ![filename] = Absent], wget |-> TRUE]
        [] w.kind = "nonzero" ->
             [ret |-> "False",
              dir |-> [dir EXCEPT ![filename] = w.after], wget |-> TRUE]
        [] OTHER ->
             [ret |-> "False",
              dir |-> [dir EXCEPT ![filename] = Absent], wget |-> TRUE]

\* ENACfDNADownloader.download_fastq_file that keeps the file when the
\* validation of the download fails
DownloadKeepInvalid(run_accession, filename, file_info, dir, validate_downloads, w, t1, t2) ==
  IF run_accession = None \/ filename = None
    THEN [ret |-> "raised", dir |-> dir, wget |-> FALSE]
    ELSE
      IF dir[filename] /= Absent
           /\ _validate_file(dir[filename], file_info, validate_downloads, t1)
        THEN [ret |-> "True", dir |-> dir, wget |-> FALSE]
        ELSE
          CASE w.kind = "exit0" ->
                 IF _validate_file(w.after, file_info, validate_downloads, t2)
                   THEN [ret |-> "True",
                         dir |-> [dir EXCEPT ![filename] = w.after], wget |-> TRUE]
                   ELSE [ret |-> "False",
                         dir |-> [dir EXCEPT ![filename] = w.after], wget |-> TRUE]
            [] w.kind = "nonzero" ->
                 [ret |-> "False",
                  dir |-> [dir EXCEPT ![filename] = w.after], wget |-> TRUE]
            [] OTHER ->
                 [ret |-> "False",
                  dir |-> [dir EXCEPT ![filename] = Absent], wget |-> TRUE]

\* ENACfDNADownloader.download_fastq_file that clears the fastq directory
\* when the transfer has failed
DownloadClearingOnFailure(run_accession, filename, file_info, dir, validate_downloads, w, t1, t2) ==
  IF run_accession = None \/ filename = None
    THEN [ret |-> "raised", dir |-> dir, wget |-> FALSE]
    ELSE
      IF dir[filename] /= Absent
           /\ _validate_file(dir[filename], file_info, validate_downloads, t1)
        THEN [ret |-> "True", dir |-> dir, wget |-> FALSE]
        ELSE
          IF w.kind = "exit0"
               /\ _validate_file(w.after, file_info, validate_downloads, t2)
            THEN [ret |-> "True",
                  dir |-> [dir EXCEPT ![filename] = w.after], wget |-> TRUE]
            ELSE [ret |-> "False",
                  dir |-> [n \in DOMAIN dir |-> Absent], wget |-> TRUE]

\* ENACfDNADownloader.download_fastq_file(run_accession, filename, file_info)
\* on the fastq directory dir.  w is how wget ends if it is run, t1 and t2
\* how the digest tool ends in the validation before and after the download.
\* ret "raised": the TypeError of run_accession[:6] or of Path / filename on
\* None, raised before the try block.  local_path is fastq / filename, so
\* the filename alone names the destination.
download_fastq_file(run_accession, filename, file_info, dir, validate_downloads, w, t1, t2) ==
  IF run_accession = None \/ filename = None
    THEN [ret |-> "raised", dir |-> dir, wget |-> FALSE]
    ELSE
      IF dir[filename] /= Absent
           /\ _validate_file(dir[filename], file_info, validate_downloads, t1)
        THEN [ret |-> "True", dir |-> dir, wget |-> FALSE]
        ELSE
          CASE w.kind = "exit0" ->
                 IF _validate_file(w.after, file_info, validate_downloads, t2)
                   THEN [ret |-> "True",
                         dir |-> [dir EXCEPT ![filename] = w.after], wget |-> TRUE]
                   ELSE [ret |-> "False",
                         dir |-> [dir EXCEPT ![filename] = Absent], wget |-> TRUE]
            [] w.kind = "nonzero" ->
                 [ret |-> "False",
                  dir |-> [dir EXCEPT ![filename] = w.after], wget |-> TRUE]
            [] OTHER ->
                 [ret |-> "False",
                  dir |-> [dir EXCEPT ![filename] = Absent], wget |-> TRUE]

\* local_path = Path(storage_config["cfdna_structure"]["fastq"]) / filename:
\* the run accession is part of the URL and not of the local path
local_path(run_accession, filename) == filename

\* ------------------------------------------------------- NCBI run transfer
\* a name is a sequence of pieces: <<"SRR1", "0">> is "SRR10"
IsPrefix(p, s) == Len(p) <= Len(s) /\ SubSeq(s, 1, Len(p)) = p

\* run accessions: "SRR1" is a prefix of "SRR10"; <<>> is the empty accession
\* _get_run_details leaves when the summary has no Accession item
RunAccessions == {<<"SRR1">>, <<"SRR1", "0">>, <<"SRR2">>, <<>>}

FastqSuffixes == {"_1.fastq", "_2.fastq"}

\* the files fasterq-dump --split-files can write for a run
ToolFiles(run_accession) == {run_accession \o <<x>> : x \in FastqSuffixes}

AllToolFiles == UNION {ToolFiles(a) : a \in RunAccessions}

\* output_dir.glob(f"{run_accession}*.fastq*")
fastq_glob(outdir, run_accession) ==
  {n \in outdir : IsPrefix(run_accession, n)}

\* how one run of fasterq-dump ends and the files it has written by then
FasterqOutcomes(run_accession) ==
  [kind : {"exit0", "nonzero", "timeout"}, files : SUBSET ToolFiles(run_accession)]
    \cup [kind : {"raised"}, files : {{}}]

\* NCBICfDNADownloader.download_sra_run that runs the tool without looking
\* for earlier output
SraRunAlways(run_accession, outdir, o) ==
  LET out == outdir \cup o.files
  IN  IF o.kind = "exit0" /\ fastq_glob(out, run_accession) /= {}
        THEN [ret |-> "True", outdir |-> out, tool |-> TRUE]
        ELSE [ret |-> "False", outdir |-> out, tool |-> TRUE]

\* NCBICfDNADownloader.download_sra_run(run_accession) on the output
\* directory outdir, run without interruption; o is how fasterq-dump ends
download_sra_run(run_accession, outdir, o) ==
  IF fastq_glob(outdir, run_accession) /= {}
    THEN [ret |-> "True", outdir |-> outdir, tool |-> FALSE]
    ELSE LET out == outdir \cup o.files
         IN  IF o.kind = "exit0" /\ fastq_glob(out, run_accession) /= {}
               THEN [ret |-> "True", outdir |-> out, tool |-> TRUE]
               ELSE [ret |-> "False", outdir |-> out, tool |-> TRUE]

\* ------------------------------------------------------------------- state
VARIABLES
  validate_downloads,  \* download_settings.validate_downloads of the config
  config,              \* the options the configuration file sets
  args_max_samples,    \* ENA: args.max_samples, <<>> is None and <<n>> is n
  fs,                  \* the fastq directory of the ENA downloader
  outdir,              \* the fastq directory of the NCBI downloader
  call,                \* the last call of _validate_file / download_fastq_file
  sra,                 \* the last call of download_sra_run
  pc,                  \* where download_project_data stands
  download_summary,    \* the download_summary dictionary
  metadata_file,       \* metadata / {project_accession}_metadata.json
  summary_file,        \* metadata / {project_accession}_download_summary.json
  samples,             \* ENA: the sample list after truncation
  si,                  \* ENA: how many samples the outer loop has taken
  n_runs,              \* ENA: len(runs) of the current sample
  ri,                  \* ENA: how many runs of it the loop has taken
  run_accession,       \* ENA: run['accession'] of the current run
  n_files,             \* ENA: len(run['files']) of the current run
  fi,                  \* ENA: how many files of it the loop has taken
  sample_success,      \* ENA: the sample_success flag
  remote,              \* ENA: the hierarchy the archive serves, when fixed
  fixed,               \* ENA: whether the archive serves the fixed hierarchy
  acq,                 \* ENA: which acquisition of the project this is
  units,               \* history: how many FILE elements the runs resolved so far hold
  taken,               \* history: how many FILE elements the inner loop has taken
  started,             \* history: how many times download_fastq_file was called
  returned,            \* history: how many transfers have returned True or False
  first_ok,            \* history: the files whose transfer returned True in acquisition 1
  redone,              \* history: those of them acquisition 2 did not skip
  resolved,            \* history: the last remote resolution call and its answer
  max_concurrent_downloads, \* NCBI: download_config["max_concurrent_downloads"]
  runs,                \* NCBI: the run accessions download_project_data submits
  futures,             \* NCBI: future_to_run, one future per submitted run
  audit                \* history: what happened to the sample taken last

envVars == <<validate_downloads, config, args_max_samples, fs, outdir>>

unitVars == <<call, sra>>

enaVars ==
  <<pc, download_summary, metadata_file, summary_file, samples, si, n_runs, ri,
    run_accession, n_files, fi, sample_success, remote, fixed, acq, units,
    taken, started, returned, first_ok, redone, resolved, audit>>

ncbiVars == <<max_concurrent_downloads, runs, futures>>

vars == <<envVars, unitVars, enaVars, ncbiVars>>

\* ENA run accessions: a RUN element may lack the accession attribute
EnaRunAccessions == {"ERR100", None}

\* the file_info dictionaries of the sequence-read files
FastqFileInfos == {f \in FileInfos : f.filetype = "fastq.gz"}

NoFile ==
  [filename |-> None, filetype |-> None, checksum |-> None, checksum_method |-> None]

NoCall ==
  [op |-> "none", run_accession |-> None, file_info |-> NoFile, pre |-> Absent,
   tool |-> "exit0", tool2 |-> "exit0", wkind |-> "none", ret |-> "none",
   wget |-> FALSE]

NoSra ==
  [op |-> "none", run_accession |-> <<>>, pre |-> {}, okind |-> "none",
   ret |-> "none", tool |-> FALSE]

EmptyDir == [n \in FileNames |-> Absent]

\* no acquisition of the NCBI downloader has been started
NcbiIdle ==
  /\ max_concurrent_downloads = 1
  /\ runs = <<>>
  /\ futures = <<>>

\* --------------------------------------------- ENA download_project_data
\* bounds of the hierarchy the archive returns
MaxSamples == 2

MaxRuns == 2

MaxFiles == 2

\* FILE elements in the whole hierarchy
MaxUnits == 2

ProjectAccession == "PRJ001"

\* the summary before any sample is processed
NewSummary(project_accession, sample_list) ==
  [project_accession |-> project_accession,
   total_samples |-> Len(sample_list),
   downloaded_samples |-> 0, failed_samples |-> 0,
   downloaded_files |-> 0, failed_files |-> 0,
   errors |-> <<>>]

NoSummary == NewSummary(None, <<>>)

\* a snapshot file that has not been written
NoSnapshot == [project_accession |-> None]

\* max_samples: <<>> is None, <<n>> is the integer n
MaxSamplesArgs == {<<>>} \cup {<<n>> : n \in 0..MaxSamples}

Min(a, b) == IF a <= b THEN a ELSE b

\* if max_samples: samples = samples[:max_samples]
TruncateSamples(sample_list, max_samples) ==
  IF max_samples /= <<>> /\ max_samples[1] /= 0
    THEN SubSeq(sample_list, 1, Min(max_samples[1], Len(sample_list)))
    ELSE sample_list

\* a sample without runs that is reported and not counted
NoRunsFoundUncounted(summary, sample) ==
  [summary EXCEPT !.errors = Append(@, <<"No runs found for sample", sample>>)]

\* a sample without runs that is counted and not reported
NoRunsFoundSilent(summary, sample) ==
  [summary EXCEPT !.failed_samples = @ + 1]

\* if not runs: failed_samples += 1, errors.append(...)
NoRunsFound(summary, sample) ==
  [summary EXCEPT !.failed_samples = @ + 1,
                  !.errors = Append(@, <<"No runs found for sample", sample>>)]

\* a loop that takes every file whatever its type
EligibleWhateverType(file_info) == TRUE

\* file_info['filetype'] in ['fastq', 'fastq.gz']
EligibleFile(file_info) == file_info.filetype \in {"fastq", "fastq.gz"}

\* the counting that leaves a successful transfer out
CountFileForgetsSuccess(summary, ret) ==
  IF ret = "True"
    THEN summary
    ELSE [summary EXCEPT !.failed_files = @ + 1]

\* the counting of one transfer's result
CountFile(summary, ret) ==
  IF ret = "True"
    THEN [summary EXCEPT !.downloaded_files = @ + 1]
    ELSE [summary EXCEPT !.failed_files = @ + 1]

\* sample_success after one transfer's result
SuccessAfter(success, ret) == IF ret = "True" THEN success ELSE FALSE

\* for file_info in run['files']: after a file that did not raise, whatever
\* its transfer returned, the loop has taken one file more
NextFile(ret, files_taken, files_total) == files_taken + 1

\* the end of the sample that counts it as downloaded whatever its flag
CountSampleAlwaysDownloaded(summary, success) ==
  [summary EXCEPT !.downloaded_samples = @ + 1]

\* the counting of a sample at the end of its runs
CountSample(summary, success) ==
  IF success
    THEN [summary EXCEPT !.downloaded_samples = @ + 1]
    ELSE [summary EXCEPT !.failed_samples = @ + 1]

\* except Exception as e: failed_samples += 1, errors.append(...)
SampleError(summary, sample) ==
  [summary EXCEPT !.failed_samples = @ + 1,
                  !.errors = Append(@, <<"Error processing sample", sample>>)]

\* the file_info dictionaries the acquisitions are run on: a file with its
\* md5, another file under the same filename with another md5, a file
\* without checksum, a file that is no sequence-read file, and a FILE
\* element without filename
EnaFileMenu ==
  { [filename |-> "a.fastq.gz", filetype |-> "fastq.gz",
     checksum |-> Md5Hex[1], checksum_method |-> "md5"],
    [filename |-> "a.fastq.gz", filetype |-> "fastq.gz",
     checksum |-> Md5Hex[2], checksum_method |-> "md5"],
    [filename |-> "b.fastq.gz", filetype |-> "fastq",
     checksum |-> None, checksum_method |-> None],
    [filename |-> "b.fastq.gz", filetype |-> "bam",
     checksum |-> Md5Hex[1], checksum_method |-> "md5"],
    [filename |-> None, filetype |-> "fastq.gz",
     checksum |-> Md5Hex[1], checksum_method |-> "md5"] }

\* how the digest tool ends during an acquisition
AcqToolOutcomes == {"exit0", "raised"}

\* how a remote resolution call ends: with a document, with a timeout, with
\* a status raise_for_status() rejects, or with content ET.fromstring rejects
ResponseKinds == {"ok", "timeout", "http_error", "unparsable"}

\* when a hierarchy is replayed the archive answers every call
RemoteKinds == IF fixed THEN {"ok"} ELSE ResponseKinds

\* the options the model follows: the storage section, which the constructor
\* reads (lines 29, 69-76), and data_sources.ena.base_url, .timeout and
\* .ftp_base, which are read when they are first used (lines 147, 150, 249)
ConfigKeys == {"storage", "base_url", "timeout", "ftp_base"}

\* how a resolution call ends: without base_url the URL of lines 147 and 193
\* cannot be built, without timeout session.get is never reached
ResolutionKinds ==
  IF "base_url" \notin config THEN {"no_base_url"}
  ELSE IF "timeout" \notin config THEN {"no_timeout"}
  ELSE RemoteKinds

\* the answers to a list call whose document can hold any of counts elements
RemoteAnswers(counts) ==
  [kind : ResolutionKinds \cap {"ok"}, n : counts]
    \cup [kind : ResolutionKinds \ {"ok"}, n : {0}]

\* get_project_samples that lets the exception of a failed call out
get_project_samples_raising(answer) ==
  IF answer.kind = "ok"
    THEN [ret |-> "returned", n |-> answer.n]
    ELSE [ret |-> "raised", n |-> 0]

\* get_project_samples: the SAMPLE elements of the document, or [] from the
\* except branch (lines 149-180); n is the length of the list returned.  The
\* KeyError of line 147 is raised before the try.
get_project_samples(answer) ==
  IF answer.kind = "ok"
    THEN [ret |-> "returned", n |-> answer.n]
  ELSE IF answer.kind = "no_base_url"
    THEN [ret |-> "raised", n |-> 0]
  ELSE [ret |-> "returned", n |-> 0]

\* get_sample_runs whose except branch returns a list that is not empty
get_sample_runs_partial(answer) ==
  IF answer.kind = "ok"
    THEN [ret |-> "returned", n |-> answer.n]
  ELSE IF answer.kind = "no_base_url"
    THEN [ret |-> "raised", n |-> 0]
  ELSE [ret |-> "returned", n |-> 1]

\* get_sample_runs: the RUN elements of the document, or [] from the except
\* branch (lines 204-235)
get_sample_runs(answer) ==
  IF answer.kind = "ok"
    THEN [ret |-> "returned", n |-> answer.n]
  ELSE IF answer.kind = "no_base_url"
    THEN [ret |-> "raised", n |-> 0]
  ELSE [ret |-> "returned", n |-> 0]

\* no remote call has been made
NoResolution ==
  [op |-> "none", sample |-> 0, kind |-> "none", ret |-> "none", n |-> 0]

\* what the archive answers.  When the hierarchy is not fixed, every answer
\* within the bounds is possible and the document get_sample_runs returns is
\* read piece by piece as the loops reach it; an empty answer is also what a
\* failed remote call gives (get_project_samples and get_sample_runs return
\* [] from their except branch).
SampleCountChoices == IF fixed THEN {Len(remote)} ELSE 0..MaxSamples

\* max_samples: when a hierarchy is replayed, the argument main() passes
MaxSamplesChoices == IF fixed THEN {args_max_samples} ELSE MaxSamplesArgs

RunCountChoices(s) == IF fixed THEN {Len(remote[s])} ELSE 0..MaxRuns

RunChoices(s, r) ==
  IF fixed
    THEN {[accession |-> remote[s][r].accession,
           n_files |-> Len(remote[s][r].files)]}
    ELSE [accession : EnaRunAccessions,
          n_files : 0..Min(MaxFiles, MaxUnits - units)]

FileChoices(s, r, f) ==
  IF fixed THEN {remote[s][r].files[f]} ELSE EnaFileMenu

\* when a hierarchy is replayed the digest tool is installed and exits 0
\* every time, so that nothing but the downloader's own files differs
\* between the two acquisitions
ToolChoices == IF fixed THEN {"exit0"} ELSE AcqToolOutcomes

\* what download_fastq_file can return and leave, over everything wget and
\* the digest tool can do; without ftp_base the URL of line 249 cannot be
\* built and the KeyError leaves the function
Transfers(accession, f, dir, validate) ==
  IF "ftp_base" \notin config
    THEN {[ret |-> "raised", dir |-> dir, wget |-> FALSE]}
    ELSE
      { download_fastq_file(accession, f.filename, f, dir, validate, w, t[1], t[2]) :
          w \in WgetOutcomes(IF f.filename = None THEN Absent ELSE dir[f.filename]),
          t \in ToolChoices \X ToolChoices }

\* the entry of the history for a sample that is being processed
OpenEntry(s) ==
  [sample |-> s, kind |-> "open", counted |-> "none",
   failed |-> FALSE, skipped |-> FALSE]

NoEntry == OpenEntry(0)

\* how the step from summary old to summary new counted the sample
CountedAs(old, new) ==
  IF new.downloaded_samples = old.downloaded_samples + 1
       /\ new.failed_samples = old.failed_samples
    THEN "downloaded"
  ELSE IF new.failed_samples = old.failed_samples + 1
       /\ new.downloaded_samples = old.downloaded_samples
    THEN "failed"
  ELSE "miscounted"

\* the sample's entry is closed: how it ended, how the summary counted it,
\* and whether a sequence-read file of it was left without a transfer
CloseEntry(kind, old, new, skipped) ==
  [audit EXCEPT !.kind = kind, !.counted = CountedAs(old, new),
                !.skipped = skipped]

\* no acquisition has been started
EnaIdle ==
  /\ pc = "idle"
  /\ config = ConfigKeys
  /\ args_max_samples = <<>>
  /\ download_summary = NoSummary
  /\ metadata_file = NoSnapshot
  /\ summary_file = NoSnapshot
  /\ samples = <<>>
  /\ si = 0 /\ n_runs = 0 /\ ri = 0 /\ run_accession = None
  /\ n_files = 0 /\ fi = 0 /\ sample_success = TRUE
  /\ remote = <<>> /\ fixed = FALSE /\ acq = 1
  /\ units = 0 /\ taken = 0 /\ started = 0 /\ returned = 0
  /\ first_ok = {} /\ redone = {}
  /\ resolved = NoResolution
  /\ audit = NoEntry

loopVars == <<n_runs, ri, run_accession, n_files, fi, sample_success>>

histVars == <<taken, started, returned, first_ok, redone>>

\* the locals of the inner loops are dead once the sample is left
LeaveSample ==
  /\ n_runs' = 0 /\ ri' = 0 /\ run_accession' = None
  /\ n_files' = 0 /\ fi' = 0 /\ sample_success' = TRUE

\* the acquisition that leaves the metadata file for later
SampleSnapshotNotWritten(project_accession, sample_list) == NoSnapshot

\* json.dump({'project_accession': ..., 'samples': samples, ...}) into the
\* metadata file (lines 376-383)
SampleSnapshot(project_accession, sample_list) ==
  [project_accession |-> project_accession, samples |-> sample_list]

\* lines 358-383: resolve the samples, truncate, start the summary, write
\* the hierarchy snapshot
EnaStart ==
  /\ pc = "idle"
  /\ \E answer \in RemoteAnswers(SampleCountChoices),
        max_samples \in MaxSamplesChoices :
       LET r == get_project_samples(answer)
           sample_list == TruncateSamples([i \in 1..r.n |-> i], max_samples)
       IN  /\ resolved' = [op |-> "get_project_samples", sample |-> 0,
                           kind |-> answer.kind, ret |-> r.ret, n |-> r.n]
           /\ IF r.ret = "raised"
                THEN /\ pc' = "raised"
                     /\ UNCHANGED <<samples, download_summary, metadata_file>>
                ELSE /\ pc' = "sample"
                     /\ samples' = sample_list
                     /\ download_summary' =
                          NewSummary(ProjectAccession, sample_list)
                     /\ metadata_file' =
                          SampleSnapshot(ProjectAccession, sample_list)
  /\ si' = 0
  /\ UNCHANGED <<envVars, unitVars, ncbiVars, summary_file, loopVars, remote,
                 fixed, acq, units, histVars, audit>>

\* lines 386-395: the next sample, its runs
BeginSample ==
  /\ pc = "sample" /\ si < Len(samples)
  /\ si' = si + 1
  /\ LET s == samples[si + 1]
     IN  \E answer \in RemoteAnswers(RunCountChoices(s)) :
           LET r == get_sample_runs(answer)
           IN  /\ resolved' = [op |-> "get_sample_runs", sample |-> s,
                               kind |-> answer.kind, ret |-> r.ret, n |-> r.n]
               /\ IF r.ret = "raised"
                    THEN LET new == SampleError(download_summary, s)
                         IN  /\ download_summary' = new
                             /\ audit' = [OpenEntry(s) EXCEPT
                                            !.kind = "raised",
                                            !.counted = CountedAs(download_summary, new)]
                             /\ pc' = "sample"
                             /\ UNCHANGED loopVars
                  ELSE IF r.n = 0
                    THEN LET new == NoRunsFound(download_summary, s)
                         IN  /\ download_summary' = new
                             /\ audit' = [OpenEntry(s) EXCEPT
                                            !.kind = "no_runs",
                                            !.counted = CountedAs(download_summary, new)]
                             /\ pc' = "sample"
                             /\ UNCHANGED loopVars
                  ELSE /\ n_runs' = r.n /\ ri' = 0 /\ sample_success' = TRUE
                       /\ audit' = OpenEntry(s)
                       /\ pc' = "run"
                       /\ UNCHANGED <<download_summary, run_accession, n_files, fi>>
  /\ UNCHANGED <<envVars, unitVars, ncbiVars, metadata_file, summary_file, samples,
                 remote, fixed, acq, units, histVars>>

\* line 398: the next run of the sample
BeginRun ==
  /\ pc = "run" /\ ri < n_runs
  /\ ri' = ri + 1
  /\ \E r \in RunChoices(samples[si], ri + 1) :
       /\ run_accession' = r.accession
       /\ n_files' = r.n_files
       /\ units' = units + r.n_files
       /\ pc' = IF r.n_files = 0 THEN "run" ELSE "file"
  /\ fi' = 0
  /\ UNCHANGED <<envVars, unitVars, ncbiVars, download_summary, metadata_file,
                 summary_file, samples, si, n_runs, sample_success, remote,
                 fixed, acq, histVars, resolved, audit>>

\* lines 399-411: the next file of the run; a sequence-read file is
\* transferred and counted, and an exception of the transfer ends the sample
\* in the except branch of lines 418-421
ProcessFile ==
  /\ pc = "file" /\ fi < n_files
  /\ taken' = taken + 1
  /\ \E f \in FileChoices(samples[si], ri, fi + 1) :
       IF ~EligibleFile(f)
         THEN /\ fi' = NextFile("none", fi, n_files)
              /\ pc' = IF fi' = n_files THEN "run" ELSE "file"
              /\ UNCHANGED <<fs, download_summary, sample_success, audit,
                             n_runs, ri, run_accession, n_files, started,
                             returned, first_ok, redone>>
         ELSE
           \E r \in Transfers(run_accession, f, fs, validate_downloads) :
             IF r.ret = "raised"
               THEN LET new == SampleError(download_summary, samples[si])
                    IN  /\ download_summary' = new
                        /\ \E more \in
                             IF fi + 1 < n_files
                               THEN {EligibleFile(g) /\ g.filename /= None :
                                       g \in FileChoices(samples[si], ri, fi + 2)}
                               ELSE {FALSE} :
                             audit' = CloseEntry("raised", download_summary, new, more)
                        /\ pc' = "sample"
                        /\ LeaveSample
                        /\ started' = started + 1
                        /\ UNCHANGED <<fs, returned, first_ok, redone>>
               ELSE /\ fs' = r.dir
                    /\ download_summary' = CountFile(download_summary, r.ret)
                    /\ sample_success' = SuccessAfter(sample_success, r.ret)
                    /\ audit' = [audit EXCEPT !.failed = @ \/ r.ret = "False"]
                    /\ started' = started + 1
                    /\ returned' = returned + 1
                    /\ first_ok' =
                         IF fixed /\ acq = 1 /\ r.ret = "True"
                           THEN first_ok \cup {<<samples[si], ri, fi + 1>>}
                           ELSE first_ok
                    /\ redone' =
                         IF /\ fixed /\ acq = 2
                            /\ <<samples[si], ri, fi + 1>> \in first_ok
                            /\ (r.wget \/ r.ret /= "True")
                           THEN redone \cup {<<samples[si], ri, fi + 1>>}
                           ELSE redone
                    /\ fi' = NextFile(r.ret, fi, n_files)
                    /\ pc' = IF fi' = n_files THEN "run" ELSE "file"
                    /\ UNCHANGED <<n_runs, ri, run_accession, n_files>>
  /\ UNCHANGED <<validate_downloads, config, args_max_samples, outdir, unitVars, ncbiVars, metadata_file,
                 summary_file, samples, si, remote, fixed, acq, units,
                 resolved>>

\* lines 413-416: the runs of the sample are exhausted
EndSample ==
  /\ pc = "run" /\ ri = n_runs
  /\ LET new == CountSample(download_summary, sample_success)
     IN  /\ download_summary' = new
         /\ audit' = CloseEntry("finished", download_summary, new, FALSE)
  /\ pc' = "sample"
  /\ LeaveSample
  /\ UNCHANGED <<envVars, unitVars, ncbiVars, metadata_file, summary_file, samples, si,
                 remote, fixed, acq, units, histVars, resolved>>

\* a summary file that keeps what an earlier acquisition wrote into it
SummarySnapshotMerged(old, summary) ==
  IF old = NoSnapshot
    THEN summary
    ELSE [summary EXCEPT !.failed_files = @ + old.failed_files,
                         !.failed_samples = @ + old.failed_samples,
                         !.errors = old.errors \o @]

\* a summary file that leaves the error list out
SummarySnapshotWithoutErrors(old, summary) == [summary EXCEPT !.errors = <<>>]

\* with open(summary_file, 'w'): json.dump(download_summary): the file holds
\* the summary and nothing of what it held before (lines 424-426)
SummarySnapshot(old, summary) == summary

\* lines 423-431: write the summary snapshot and return the summary
EnaFinish ==
  /\ pc = "sample" /\ si = Len(samples)
  /\ summary_file' = SummarySnapshot(summary_file, download_summary)
  /\ pc' = "done"
  /\ UNCHANGED <<envVars, unitVars, ncbiVars, download_summary, metadata_file, samples,
                 si, loopVars, remote, fixed, acq, units, histVars, resolved, audit>>

\* a downloader has been constructed over a fastq directory that holds
\* anything an earlier session may have left
InitEna ==
  /\ validate_downloads \in BOOLEAN
  /\ fs \in FastqDirs
  /\ outdir = {}
  /\ call = NoCall /\ sra = NoSra
  /\ EnaIdle
  /\ NcbiIdle

NextEna == EnaStart \/ BeginSample \/ BeginRun \/ ProcessFile \/ EndSample \/ EnaFinish

\* one download_project_data of the ENA downloader, on any hierarchy
SpecEna == InitEna /\ [][NextEna]_vars

\* ------------------------------- construction and the configuration file
\* __init__ (lines 25-42): the sections the constructor reads must be there,
\* or the KeyError ends the construction
Construct ==
  /\ pc = "new"
  /\ pc' = IF "storage" \in config THEN "idle" ELSE "aborted"
  /\ UNCHANGED <<envVars, unitVars, ncbiVars, download_summary, metadata_file,
                 summary_file, samples, si, loopVars, remote, fixed, acq,
                 units, histVars, resolved, audit>>

\* a configuration file that sets any of the options, a new fastq directory,
\* and no downloader yet
InitConfig ==
  /\ validate_downloads \in BOOLEAN
  /\ config \in SUBSET ConfigKeys
  /\ args_max_samples = <<>>
  /\ fs = EmptyDir
  /\ outdir = {}
  /\ call = NoCall /\ sra = NoSra
  /\ pc = "new"
  /\ download_summary = NoSummary
  /\ metadata_file = NoSnapshot
  /\ summary_file = NoSnapshot
  /\ samples = <<>>
  /\ si = 0 /\ n_runs = 0 /\ ri = 0 /\ run_accession = None
  /\ n_files = 0 /\ fi = 0 /\ sample_success = TRUE
  /\ remote = <<>> /\ fixed = FALSE /\ acq = 1
  /\ units = 0 /\ taken = 0 /\ started = 0 /\ returned = 0
  /\ first_ok = {} /\ redone = {}
  /\ resolved = NoResolution
  /\ audit = NoEntry
  /\ NcbiIdle

NextConfig == Construct \/ NextEna

\* a downloader is constructed from a configuration file and acquires a
\* project
SpecConfig == InitConfig /\ [][NextConfig]_vars

\* ------------------------------------- the same project acquired twice
\* the sequences of one to MaxFiles FILE elements
FileSeqs == UNION {[1..n -> EnaFileMenu] : n \in 1..MaxFiles}

\* the archive gives every run its own accession: the runs of the samples
\* of a hierarchy are ERR100, ERR101, ERR100 and so on
RunName(s) == IF s % 2 = 1 THEN "ERR100" ELSE "ERR101"

\* a sample with one run, of accession a, that holds the files fl
OneRun(a, fl) == << [accession |-> a, files |-> fl] >>

\* the hierarchies that are replayed: one sample with one run of one to
\* MaxFiles files, and no to MaxSamples samples with one run of one file
TwiceHierarchies ==
  { << OneRun(RunName(1), fl) >> : fl \in FileSeqs }
    \cup UNION { { [i \in 1..n |-> OneRun(RunName(i), <<f[i]>>)] : f \in [1..n -> EnaFileMenu] } :
                   n \in 0..MaxSamples }

\* a downloader over a new fastq directory, and an archive that serves the
\* same hierarchy to every call
InitTwice ==
  /\ validate_downloads \in BOOLEAN
  /\ fs = EmptyDir
  /\ outdir = {}
  /\ call = NoCall /\ sra = NoSra
  /\ pc = "idle"
  /\ config = ConfigKeys
  /\ args_max_samples \in MaxSamplesArgs
  /\ download_summary = NoSummary
  /\ metadata_file = NoSnapshot
  /\ summary_file = NoSnapshot
  /\ samples = <<>>
  /\ si = 0 /\ n_runs = 0 /\ ri = 0 /\ run_accession = None
  /\ n_files = 0 /\ fi = 0 /\ sample_success = TRUE
  /\ remote \in TwiceHierarchies /\ fixed = TRUE /\ acq = 1
  /\ units = 0 /\ taken = 0 /\ started = 0 /\ returned = 0
  /\ first_ok = {} /\ redone = {}
  /\ resolved = NoResolution
  /\ audit = NoEntry
  /\ NcbiIdle

\* main() is run again on the same project with the same configuration
AcquireAgain ==
  /\ pc = "done" /\ acq = 1
  /\ acq' = 2
  /\ pc' = "idle"
  /\ download_summary' = NoSummary
  /\ samples' = <<>>
  /\ si' = 0
  /\ units' = 0 /\ taken' = 0 /\ started' = 0 /\ returned' = 0
  /\ audit' = NoEntry
  /\ resolved' = NoResolution
  /\ UNCHANGED <<envVars, unitVars, ncbiVars, metadata_file, summary_file, loopVars,
                 remote, fixed, first_ok, redone>>

NextTwice == NextEna \/ AcquireAgain

SpecTwice == InitTwice /\ [][NextTwice]_vars

\* ------------------------------------------- one call at a time (SpecUnit)
\* a downloader has been constructed over a fastq directory that holds
\* anything an earlier session may have left; nothing has been called yet
InitUnit ==
  /\ validate_downloads \in BOOLEAN
  /\ \/ fs \in FastqDirs /\ outdir = {}
     \/ fs = EmptyDir /\ outdir \in SUBSET AllToolFiles
  /\ call = NoCall
  /\ sra = NoSra
  /\ EnaIdle
  /\ NcbiIdle

\* _validate_file(file_path, file_info) on a path of the fastq directory
ValidateFile ==
  /\ call.op = "none" /\ sra.op = "none" /\ outdir = {}
  /\ \E f \in FastqFileInfos, t \in ToolOutcomes :
     \E n \in FileNames \cap {f.filename} :
       call' = [op |-> "_validate_file", run_accession |-> None, file_info |-> f,
                pre |-> fs[n], tool |-> t, tool2 |-> "exit0", wkind |-> "none",
                ret |-> IF _validate_file(fs[n], f, validate_downloads, t)
                          THEN "True" ELSE "False",
                wget |-> FALSE]
  /\ UNCHANGED <<validate_downloads, config, args_max_samples, fs, outdir, sra, enaVars, ncbiVars>>

\* download_fastq_file(run['accession'], file_info['filename'], file_info)
DownloadFastqFile ==
  /\ call.op = "none" /\ sra.op = "none" /\ outdir = {}
  /\ \E a \in EnaRunAccessions, f \in FastqFileInfos, t1, t2 \in ToolOutcomes :
       LET pre == IF f.filename = None THEN Absent ELSE fs[f.filename]
       IN  \E w \in WgetOutcomes(pre) :
             LET r == download_fastq_file(a, f.filename, f, fs,
                                          validate_downloads, w, t1, t2)
             IN  /\ fs' = r.dir
                 /\ call' = [op |-> "download_fastq_file", run_accession |-> a,
                             file_info |-> f, pre |-> pre, tool |-> t1,
                             tool2 |-> t2,
                             wkind |-> IF r.wget THEN w.kind ELSE "none",
                             ret |-> r.ret, wget |-> r.wget]
  /\ UNCHANGED <<validate_downloads, config, args_max_samples, outdir, sra, enaVars, ncbiVars>>

\* download_sra_run(run_accession), no other transfer running
DownloadSraRun ==
  /\ call.op = "none" /\ sra.op = "none" /\ fs = EmptyDir
  /\ \E a \in RunAccessions :
       \E o \in FasterqOutcomes(a) :
         LET r == download_sra_run(a, outdir, o)
         IN  /\ outdir' = r.outdir
             /\ sra' = [op |-> "download_sra_run", run_accession |-> a,
                        pre |-> outdir,
                        okind |-> IF r.tool THEN o.kind ELSE "none",
                        ret |-> r.ret, tool |-> r.tool]
  /\ UNCHANGED <<validate_downloads, config, args_max_samples, fs, call, enaVars, ncbiVars>>

NextUnit == ValidateFile \/ DownloadFastqFile \/ DownloadSraRun

SpecUnit == InitUnit /\ [][NextUnit]_vars

\* -------------------------------------------- NCBI download_project_data
MaxRunList == 2

MaxWorkers == 2

\* the lists of runs get_project_runs can return; [] is also what it returns
\* from its except branch
RunLists == UNION {[1..n -> RunAccessions] : n \in 0..MaxRunList}

\* max_runs: <<>> is None, <<n>> is the integer n
MaxRunsArgs == {<<>>} \cup {<<n>> : n \in 0..MaxRunList}

\* if max_runs: runs = runs[:max_runs]
TruncateRuns(run_list, max_runs) ==
  IF max_runs /= <<>> /\ max_runs[1] /= 0
    THEN SubSeq(run_list, 1, Min(max_runs[1], Len(run_list)))
    ELSE run_list

\* download_summary = {...} of the NCBI downloader
NewRunSummary(project_accession, run_list) ==
  [project_accession |-> project_accession,
   total_runs |-> Len(run_list),
   downloaded_runs |-> 0, failed_runs |-> 0,
   downloaded_files |-> 0, failed_files |-> 0,
   errors |-> <<>>]

\* a future the executor has not started
PendingFuture == [st |-> "pending", ret |-> "none", tool |-> FALSE]

\* the futures whose call is running
Running == {i \in DOMAIN futures : futures[i].st = "running"}

\* an executor with a thread for every submitted call
max_workers_per_call == Len(futures)

\* ThreadPoolExecutor(max_workers=download_config["max_concurrent_downloads"])
max_workers == max_concurrent_downloads

\* if success: downloaded_runs += 1, downloaded_files += len(glob)
RunDownloaded(summary, run, dir) ==
  [summary EXCEPT !.downloaded_runs = @ + 1,
                  !.downloaded_files = @ + Cardinality(fastq_glob(dir, run))]

\* the else branch counting the failed run as a failed file
RunFailedCountsFile(summary, run) ==
  [summary EXCEPT !.failed_files = @ + 1,
                  !.errors = Append(@, <<"Failed to download run", run>>)]

\* else: failed_runs += 1, errors.append(...)
RunFailed(summary, run) ==
  [summary EXCEPT !.failed_runs = @ + 1,
                  !.errors = Append(@, <<"Failed to download run", run>>)]

\* except Exception as e: failed_runs += 1, errors.append(...)
RunError(summary, run) ==
  [summary EXCEPT !.failed_runs = @ + 1,
                  !.errors = Append(@, <<"Error processing run", run>>)]

\* lines 383-413: resolve the runs, truncate, start the summary, write the
\* metadata file, submit one download_sra_run per run to the executor
NcbiStart ==
  /\ pc = "idle"
  /\ \E run_list \in RunLists, max_runs \in MaxRunsArgs :
       LET submitted == TruncateRuns(run_list, max_runs)
       IN  /\ runs' = submitted
           /\ download_summary' = NewRunSummary(ProjectAccession, submitted)
           /\ metadata_file' =
                [project_accession |-> ProjectAccession, runs |-> submitted]
           /\ futures' = [i \in DOMAIN submitted |-> PendingFuture]
  /\ pc' = "pool"
  /\ UNCHANGED <<envVars, unitVars, summary_file, samples, si, loopVars,
                 remote, fixed, acq, units, histVars, resolved, audit,
                 max_concurrent_downloads>>

\* a worker thread takes the oldest queued call and download_sra_run looks
\* for earlier output (lines 326-333)
SraBegin(i) ==
  /\ pc = "pool"
  /\ futures[i].st = "pending"
  /\ \A j \in 1..(i - 1) : futures[j].st /= "pending"
  /\ Cardinality(Running) < max_workers
  /\ futures' =
       [futures EXCEPT ![i] =
          IF fastq_glob(outdir, runs[i]) /= {}
            THEN [st |-> "finished", ret |-> "True", tool |-> FALSE]
            ELSE [st |-> "running", ret |-> "none", tool |-> TRUE]]
  /\ UNCHANGED <<envVars, unitVars, enaVars, max_concurrent_downloads, runs>>

\* fasterq-dump ends and download_sra_run returns (lines 346-367)
SraEnd(i) ==
  /\ pc = "pool"
  /\ futures[i].st = "running"
  /\ \E o \in FasterqOutcomes(runs[i]) :
       LET out == outdir \cup o.files
       IN  /\ outdir' = out
           /\ futures' =
                [futures EXCEPT ![i] =
                   [st |-> "finished",
                    ret |-> IF o.kind = "exit0" /\ fastq_glob(out, runs[i]) /= {}
                              THEN "True" ELSE "False",
                    tool |-> TRUE]]
  /\ UNCHANGED <<validate_downloads, config, args_max_samples, fs, unitVars, enaVars,
                 max_concurrent_downloads, runs>>

\* an as_completed that yields only the futures whose call returned True
YieldedWhenSuccessful(future) ==
  future.st = "finished" /\ future.ret = "True"

\* as_completed(future_to_run) yields a future once its call has ended,
\* whatever the call returned (line 416)
Yielded(future) == future.st = "finished"

\* lines 416-432: as_completed yields a finished future and the main thread
\* counts its result
Collect(i) ==
  /\ pc = "pool"
  /\ Yielded(futures[i])
  /\ futures' = [futures EXCEPT ![i].st = "collected"]
  /\ download_summary' =
       IF futures[i].ret = "True"
         THEN RunDownloaded(download_summary, runs[i], outdir)
       ELSE IF futures[i].ret = "False"
         THEN RunFailed(download_summary, runs[i])
       ELSE RunError(download_summary, runs[i])
  /\ UNCHANGED <<envVars, unitVars, pc, metadata_file, summary_file, samples,
                 si, loopVars, remote, fixed, acq, units, histVars, resolved, audit,
                 max_concurrent_downloads, runs>>

\* lines 434-442: every future has been yielded, the executor is shut down,
\* the summary is written and returned
NcbiFinish ==
  /\ pc = "pool"
  /\ \A i \in DOMAIN futures : futures[i].st = "collected"
  /\ summary_file' = SummarySnapshot(summary_file, download_summary)
  /\ pc' = "done"
  /\ UNCHANGED <<envVars, unitVars, download_summary, metadata_file, samples,
                 si, loopVars, remote, fixed, acq, units, histVars, resolved, audit,
                 ncbiVars>>

\* a downloader has been constructed over an output directory that is empty
\* or holds the output of an earlier download of one run
InitNcbi ==
  /\ validate_downloads = TRUE
  /\ fs = EmptyDir
  /\ outdir \in {{}} \cup {ToolFiles(a) : a \in RunAccessions}
  /\ call = NoCall /\ sra = NoSra
  /\ EnaIdle
  /\ max_concurrent_downloads \in 1..MaxWorkers
  /\ runs = <<>>
  /\ futures = <<>>

\* the steps of the pool, for any future
WorkerBegins == \E i \in DOMAIN futures : SraBegin(i)

WorkerEnds == \E i \in DOMAIN futures : SraEnd(i)

MainCollects == \E i \in DOMAIN futures : Collect(i)

NextNcbi == NcbiStart \/ WorkerBegins \/ WorkerEnds \/ MainCollects \/ NcbiFinish

\* one download_project_data of the NCBI downloader, on any list of runs
SpecNcbi == InitNcbi /\ [][NextNcbi]_vars

\* ------------------------------------------- acquisitions that are scheduled
\* a downloader of either kind has been constructed over new directories
InitLive ==
  /\ validate_downloads = TRUE
  /\ fs = EmptyDir
  /\ outdir = {}
  /\ call = NoCall /\ sra = NoSra
  /\ EnaIdle
  /\ max_concurrent_downloads \in 1..MaxWorkers
  /\ runs = <<>>
  /\ futures = <<>>

NextLive == NextEna \/ NextNcbi

\* the calling thread runs download_project_data on; a worker thread of the
\* executor that is free takes a queued call; subprocess.run returns when
\* the tool exits or its timeout expires (lines 347, 360); as_completed
\* hands every finished future to the calling thread
Fairness ==
  /\ WF_vars(NextEna)
  /\ WF_vars(NcbiStart)
  /\ WF_vars(WorkerBegins)
  /\ WF_vars(WorkerEnds)
  /\ WF_vars(MainCollects)
  /\ WF_vars(NcbiFinish)

\* one acquisition of either downloader, scheduled fairly
SpecLive == InitLive /\ [][NextLive]_vars /\ Fairness

\* ----------------------------------------------------- claims on one call
\* the file_info names a checksum and a method the validator knows
SupportedChecksum(file_info) ==
  /\ Truthy(file_info.checksum) /\ Truthy(file_info.checksum_method)
  /\ Lower(file_info.checksum_method) \in {"md5", "sha256"}

\* the digest of the content, by the file_info's method, is exactly the
\* expected checksum
DigestMatches(content, file_info) ==
  /\ content \in Contents
  /\ DigestStdout(Lower(file_info.checksum_method), content) = file_info.checksum

\* the last call was a transfer that got as far as its destination path
Transferred == call.op = "download_fastq_file" /\ call.ret /= "raised"

C3_FailedTransportLeavesNothing ==
  (Transferred /\ call.wkind \in {"timeout", "nonzero"})
    => call.ret = "False" /\ fs[call.file_info.filename] = Absent

\* C4 (as claimed, read with validation enabled and the digest tool working):
\* a content that does not match a supported checksum validates false, and
\* a transfer never ends with such a content at the destination: it reports
\* failed and the destination is gone.
C4_ChecksumInvariant ==
  /\ ( /\ call.op = "_validate_file" /\ validate_downloads
       /\ call.tool = "exit0"
       /\ SupportedChecksum(call.file_info)
       /\ ~DigestMatches(call.pre, call.file_info) )
     => call.ret = "False"
  /\ ( /\ Transferred /\ validate_downloads
       /\ call.tool = "exit0" /\ call.tool2 = "exit0"
       /\ SupportedChecksum(call.file_info)
       /\ ~DigestMatches(fs[call.file_info.filename], call.file_info) )
     => call.ret = "False" /\ fs[call.file_info.filename] = Absent

\* the case of C5: validation enabled, the file exists and is not empty, the
\* method is md5 or sha256 and a checksum is supplied
C5_Case ==
  /\ call.op = "_validate_file" /\ validate_downloads
  /\ call.pre \in Contents
  /\ SupportedChecksum(call.file_info)

\* C5 (as claimed): in that case validate returns true iff the digest of the
\* content equals the expected checksum exactly.
C5_TrueIffDigestEqual ==
  C5_Case => (call.ret = "True" <=> DigestMatches(call.pre, call.file_info))

\* C5 (amended): in that case, when the digest tool exits 0 validate returns
\* true iff the digest it printed equals the expected checksum exactly (case
\* included); when the tool exits non-zero or cannot be run, validate
\* returns true.
C5_TrueIffDigestEqualWhenToolRuns ==
  C5_Case =>
    IF call.tool = "exit0"
      THEN call.ret = "True" <=> DigestMatches(call.pre, call.file_info)
      ELSE call.ret = "True"

\* the expected checksum is the digest of the content in upper case: no match
C5_Witness ==
  /\ C5_Case /\ call.tool = "exit0"
  /\ call.file_info.checksum_method = "md5"
  /\ call.file_info.checksum = Md5HexUpper[call.pre]
  /\ call.ret = "False"

\* C6: with validation disabled validate returns true for every input, a
\* missing or empty file included; with validation enabled a missing or
\* empty file validates false whatever checksum and method are supplied.
C6_DisabledBeforeExistence ==
  call.op = "_validate_file" =>
    /\ ~validate_downloads => call.ret = "True"
    /\ (validate_downloads /\ call.pre \in {Absent, 0}) => call.ret = "False"

C6_Witness ==
  /\ call.op = "_validate_file" /\ ~validate_downloads
  /\ call.pre = Absent /\ call.ret = "True"

\* C7: with validation enabled an existing non-empty file validates true
\* when the checksum or the method is absent and when the method is not
\* md5 or sha256.
C7_FailOpen ==
  ( /\ call.op = "_validate_file" /\ validate_downloads
    /\ call.pre \in Contents
    /\ ~SupportedChecksum(call.file_info) )
  => call.ret = "True"

C7_Witness ==
  /\ call.op = "_validate_file" /\ validate_downloads
  /\ call.pre \in Contents
  /\ call.file_info.checksum_method = "crc32"
  /\ Truthy(call.file_info.checksum)
  /\ call.ret = "True"

\* ------------------------------------------- claims on one acquisition
\* C2 (as claimed): when the same project is acquired twice from the same
\* hierarchy with the same downloader, every file whose transfer succeeded
\* in the first acquisition is skipped as already valid by the second, which
\* never runs wget for it.
C2_SecondRunSkipsSucceeded == redone = {}

\* the sample of the history has been counted
SampleClosed == audit.kind \in {"finished", "no_runs", "raised"}

\* a transfer of the sample returned failure, or raised
FileFailed == audit.failed \/ audit.kind = "raised"

\* C9 (as claimed): a sample is counted in downloaded_samples iff every file
\* of it succeeded or was skipped as valid; a sample with a failed file is
\* counted in failed_samples, and a sample none of whose files failed never
\* is.
C9_DownloadedIffNoFileFailed ==
  SampleClosed =>
    /\ audit.counted = "downloaded" <=> ~FileFailed
    /\ audit.counted = "failed" <=> FileFailed

\* C9 (as amended): a sample is counted in downloaded_samples iff it has a
\* run and no transfer of a sequence-read file of it failed; a sample with a
\* failed transfer is counted in failed_samples; a sample none of whose
\* files failed is counted in failed_samples only when it has no runs.
C9_DownloadedIffRunsAndNoFileFailed ==
  SampleClosed =>
    /\ audit.counted = "downloaded" <=> (audit.kind /= "no_runs" /\ ~FileFailed)
    /\ audit.counted = "failed" <=> (audit.kind = "no_runs" \/ FileFailed)

\* the first sample had one transfer that succeeded and one that failed, and
\* was counted as failed
C9_Witness ==
  /\ si = 1 /\ audit.kind = "finished" /\ audit.failed
  /\ audit.counted = "failed"
  /\ download_summary.downloaded_files = 1
  /\ download_summary.failed_files = 1

\* C10 (as claimed): neither a failed transfer nor an exception raised while
\* a sample is processed skips the transfer of a sibling: no sequence-read
\* file of the hierarchy is left without a transfer.
C10_NoSiblingSkipped == ~audit.skipped

\* the futures whose call returned True, and the others
Succeeded == {i \in DOMAIN futures : futures[i].ret = "True"}

Failed == {i \in DOMAIN futures : futures[i].ret \in {"False", "raised"}}

\* C8 (as claimed): when S of the runs a pool of more than one worker
\* transfers succeed and F fail, the final summary has downloaded_files = S
\* and failed_files = F, and an error entry for each failure, whatever the
\* order the workers finish in.
C8_FilesCountedPerUnit ==
  (pc = "done" /\ max_concurrent_downloads > 1) =>
    /\ download_summary.downloaded_files = Cardinality(Succeeded)
    /\ download_summary.failed_files = Cardinality(Failed)
    /\ Len(download_summary.errors) = Cardinality(Failed)

\* the futures the main thread has counted
Collected(rets) ==
  {i \in DOMAIN futures : futures[i].st = "collected" /\ futures[i].ret \in rets}

\* the error entry the main thread appends for future i
ErrorOf(i) ==
  <<IF futures[i].ret = "False" THEN "Failed to download run"
                                ELSE "Error processing run", runs[i]>>

\* C8 (as amended): whatever the order the workers finish in, the summary
\* counts every collected run once: downloaded_runs is the number of
\* collected runs that succeeded, failed_runs the number of those that
\* failed, errors holds one entry for each of these, and when the
\* acquisition returns they are S, F and F.  failed_files stays 0, and
\* downloaded_files is not S but the number of output files found for the
\* runs that succeeded.
C8_RunsCountedPerUnit ==
  (pc \in {"pool", "done"} /\ DOMAIN futures = DOMAIN runs) =>
    /\ download_summary.downloaded_runs = Cardinality(Collected({"True"}))
    /\ download_summary.failed_runs = Cardinality(Collected({"False", "raised"}))
    /\ Len(download_summary.errors) = download_summary.failed_runs
    /\ \A i \in Collected({"False", "raised"}) :
         \E k \in DOMAIN download_summary.errors :
           download_summary.errors[k] = ErrorOf(i)
    /\ download_summary.failed_files = 0
    /\ download_summary.downloaded_files <=
         Cardinality(outdir) * download_summary.downloaded_runs
    /\ pc = "done" =>
         /\ download_summary.downloaded_runs = Cardinality(Succeeded)
         /\ download_summary.failed_runs = Cardinality(Failed)
         /\ Cardinality(Succeeded) + Cardinality(Failed) = Len(runs)

\* with two workers, the second run has failed and has been counted while
\* the first is still running
C8_Witness ==
  /\ pc = "pool" /\ max_concurrent_downloads = 2
  /\ Len(futures) = 2
  /\ futures[1].st = "running"
  /\ futures[2].st = "collected" /\ futures[2].ret = "False"
  /\ download_summary.failed_runs = 1

\* C11 (as claimed): every failure the counters record has its entry in
\* errors: when the acquisition returns, errors is not empty if failed_files
\* or failed_samples is greater than zero, and it holds one message for each
\* failure counted.
C11_EveryFailureHasAnError ==
  (pc = "done" /\ acq = 1) =>
    /\ ( download_summary.failed_files > 0
         \/ download_summary.failed_samples > 0 )
       => download_summary.errors /= <<>>
    /\ Len(download_summary.errors) >=
         download_summary.failed_files + download_summary.failed_samples

\* the number of units the cap leaves of m
Capped(cap, m) == IF cap = <<>> THEN m ELSE Min(cap[1], m)

\* C12 (as claimed): with a cap n, 0 included, on a hierarchy of m samples
\* the acquisition processes exactly the first min(n, m) samples and
\* reports total_samples = min(n, m); without a cap it processes all m.
C12_FirstMinSamples ==
  (fixed /\ pc /= "idle") =>
    LET k == Capped(args_max_samples, Len(remote))
    IN  /\ samples = [i \in 1..k |-> i]
        /\ download_summary.total_samples = k
        /\ si <= k
        /\ pc = "done" => si = k

\* a transfer of the acquisition has been started
TransferStarted ==
  \/ taken > 0
  \/ \E i \in DOMAIN futures : futures[i].st /= "pending"

\* a transfer of the acquisition is in progress or still to come
TransferAhead ==
  \/ pc \in {"run", "file"}
  \/ pc = "sample" /\ si < Len(samples)
  \/ \E i \in DOMAIN futures : futures[i].st \in {"pending", "running"}

\* C13: the hierarchy snapshot of the project is on disk when the first
\* transfer starts; the summary snapshot is written only when no transfer is
\* in progress or still to come, and it then holds the summary; and the
\* acquisition stops nowhere but after writing it, whatever failed.
C13_SnapshotsAroundTransfers ==
  /\ TransferStarted =>
       /\ metadata_file /= NoSnapshot
       /\ metadata_file.project_accession = download_summary.project_accession
  /\ summary_file /= NoSnapshot =>
       /\ ~TransferAhead
       /\ pc = "done"
       /\ summary_file = download_summary
  /\ (pc /= "idle" /\ ~ENABLED (NextEna \/ NextNcbi)) =>
       /\ pc = "done"
       /\ summary_file = download_summary

\* the acquisition has returned after a failed and a successful transfer,
\* with both snapshots written
C13_Witness ==
  /\ pc = "done"
  /\ download_summary.failed_files = 1
  /\ download_summary.downloaded_files = 1
  /\ metadata_file = SampleSnapshot(ProjectAccession, samples)
  /\ summary_file = download_summary

\* C14: in every state of an acquisition at most max_concurrent_downloads
\* transfers are in progress.
C14_BoundedParallelism == Cardinality(Running) <= max_concurrent_downloads

\* as many transfers as the configuration allows are in progress and a
\* submitted run waits for a worker
C14_Witness ==
  /\ pc = "pool"
  /\ Cardinality(Running) = max_concurrent_downloads
  /\ \E i \in DOMAIN futures : futures[i].st = "pending"

\* the last remote resolution call timed out, was answered with an error
\* status or with a document that does not parse
ResolutionFailed == resolved.kind \in ResponseKinds \ {"ok"}

\* C15: a resolution call that fails never raises out of the backend
\* operation, which returns an empty list; the acquisition does not raise
\* either, it goes on with that empty list and stops only after writing and
\* returning its summary.
C15_ResolutionFailuresContained ==
  /\ pc /= "raised"
  /\ ResolutionFailed => resolved.ret = "returned" /\ resolved.n = 0
  /\ (ResolutionFailed /\ resolved.op = "get_project_samples") =>
       /\ samples = <<>>
       /\ download_summary.total_samples = 0
  /\ (ResolutionFailed /\ resolved.op = "get_sample_runs") =>
       /\ audit.kind = "no_runs"
       /\ audit.counted = "failed"
  /\ (pc /= "idle" /\ ~ENABLED NextEna) =>
       /\ pc = "done"
       /\ summary_file = download_summary

\* the run resolution of the second sample got an unparsable document after
\* the first sample was downloaded, and the acquisition has returned
C15_Witness ==
  /\ pc = "done"
  /\ resolved.op = "get_sample_runs" /\ resolved.kind = "unparsable"
  /\ audit.sample = 2
  /\ download_summary.downloaded_samples = 1
  /\ download_summary.failed_samples = 1
  /\ summary_file = download_summary

\* the project resolves to two samples, each with one run that holds one
\* sequence-read file with an md5 checksum, and no cap is given
TwoSamplesOneFileEach ==
  /\ fixed /\ args_max_samples = <<>>
  /\ Len(remote) = 2
  /\ \A s \in 1..2 :
       /\ Len(remote[s]) = 1
       /\ Len(remote[s][1].files) = 1
       /\ EligibleFile(remote[s][1].files[1])
       /\ remote[s][1].files[1].checksum_method = "md5"
       /\ Truthy(remote[s][1].files[1].checksum)

\* C16: when such a project has been acquired and both transfers succeeded,
\* the summary is total_samples 2, downloaded_samples 2, failed_samples 0,
\* downloaded_files 2, failed_files 0, errors [], and the metadata file and
\* the summary file exist and carry the project's accession.
C16_TwoSamplesScenario ==
  ( /\ TwoSamplesOneFileEach /\ acq = 1 /\ pc = "done"
    /\ first_ok = {<<1, 1, 1>>, <<2, 1, 1>>} )
  => /\ download_summary =
          [project_accession |-> ProjectAccession,
           total_samples |-> 2,
           downloaded_samples |-> 2, failed_samples |-> 0,
           downloaded_files |-> 2, failed_files |-> 0,
           errors |-> <<>>]
     /\ metadata_file /= NoSnapshot
     /\ metadata_file.project_accession = ProjectAccession
     /\ summary_file /= NoSnapshot
     /\ summary_file.project_accession = ProjectAccession

\* the scenario has been run with validation on: the two files were
\* downloaded, each with the content its md5 names
C16_Witness ==
  /\ TwoSamplesOneFileEach /\ acq = 1 /\ pc = "done"
  /\ validate_downloads
  /\ first_ok = {<<1, 1, 1>>, <<2, 1, 1>>}
  /\ remote[1][1].files[1].checksum = Md5Hex[1]
  /\ remote[2][1].files[1].checksum = Md5Hex[2]
  /\ fs["a.fastq.gz"] = 2

\* C17 (as claimed): when fasterq-dump times out or reports failure the run
\* is marked failed and no output file of that run remains in the output
\* directory, so that the next download of the run does not find it already
\* downloaded.
C17_FailedRunLeavesNoOutput ==
  (sra.op = "download_sra_run" /\ sra.okind \in {"timeout", "nonzero"})
    => /\ sra.ret = "False"
       /\ fastq_glob(outdir, sra.run_accession) = {}

\* C18 (as claimed): a configuration that lacks a required option ends the
\* construction of the downloader: with such a configuration no remote
\* query is made, no hierarchy snapshot is written, no transfer is tried and
\* no acquisition raises or records an error.
C18_ConfigErrorsEndConstruction ==
  config /= ConfigKeys =>
    /\ resolved.kind \notin ResponseKinds
    /\ metadata_file = NoSnapshot
    /\ taken = 0
    /\ pc /= "raised"
    /\ download_summary.errors = <<>>

\* C19: after the second acquisition of a project the metadata file and the
\* summary file hold the second acquisition only: the sample list it
\* resolved and the summary it returned, whose counts are those of the
\* samples and transfers of the second acquisition.
C19_SnapshotsOverwritten ==
  (fixed /\ acq = 2 /\ pc = "done") =>
    /\ metadata_file = SampleSnapshot(ProjectAccession, samples)
    /\ summary_file = download_summary
    /\ summary_file.total_samples = Len(samples)
    /\ summary_file.downloaded_samples + summary_file.failed_samples = si
    /\ summary_file.downloaded_files + summary_file.failed_files = returned
    /\ Len(summary_file.errors) <= summary_file.failed_samples

\* the one file of the project failed in the first acquisition and was
\* downloaded in the second, whose summary file shows no failure
C19_Witness ==
  /\ fixed /\ acq = 2 /\ pc = "done"
  /\ Len(remote) = 1 /\ Len(remote[1][1].files) = 1
  /\ first_ok = {}
  /\ returned = 1
  /\ summary_file.downloaded_files = 1
  /\ summary_file.failed_files = 0
  /\ summary_file.failed_samples = 0

\* C20 (as claimed): every resolution call of an acquisition has completed
\* before its first transfer is started: once a transfer has begun no
\* remote resolution call is made.
C20_NoResolutionAfterTransfer ==
  [][TransferStarted => resolved' = resolved]_vars

\* C20 (as amended): the samples of the project are resolved before
\* anything else, and the runs of a sample are resolved when the loop reaches
\* that sample, after the transfers of the samples before it: the files of
\* a sample are transferred only after its own run resolution has returned
\* the runs the loop goes through.
C20_RunsResolvedBeforeTheirSample ==
  /\ pc \in {"sample", "run", "file", "done"} => resolved.op /= "none"
  /\ pc \in {"run", "file"} =>
       /\ resolved.op = "get_sample_runs"
       /\ resolved.sample = samples[si]
       /\ resolved.kind = "ok" /\ resolved.ret = "returned"
       /\ resolved.n = n_runs
  /\ (pc = "sample" /\ si = 0) =>
       /\ resolved.op = "get_project_samples"
       /\ taken = 0

\* the runs of the second sample have been resolved after a file of the
\* first sample was transferred, and a file of the second is up next
C20_Witness ==
  /\ pc = "file" /\ si = 2
  /\ returned >= 1
  /\ resolved.op = "get_sample_runs" /\ resolved.sample = 2
  /\ resolved.kind = "ok"

\* FILE element f of run r of sample s of the replayed hierarchy has been
\* taken by the loops of this acquisition and the sample has not been left
\* by an exception
Reached(s, r, f) ==
  \/ s < si
  \/ s = si /\ pc \in {"sample", "done"} /\ audit.kind = "finished"
  \/ s = si /\ pc \in {"run", "file"} /\ (r < ri \/ (r = ri /\ f <= fi))

\* the run accession / filename pairs download_fastq_file has been called
\* for and has built a local path for
TransferUnits ==
  { <<remote[s][r].accession, remote[s][r].files[f].filename>> :
      <<s, r, f>> \in
        { x \in (1..MaxSamples) \X (1..MaxRuns) \X (1..MaxFiles) :
            /\ x[1] <= Len(remote) /\ x[2] <= Len(remote[x[1]])
            /\ x[3] <= Len(remote[x[1]][x[2]].files)
            /\ Reached(x[1], x[2], x[3])
            /\ EligibleFile(remote[x[1]][x[2]].files[x[3]])
            /\ remote[x[1]][x[2]].files[x[3]].filename /= None } }

\* C21 (as claimed): two transfer units of one acquisition that differ in
\* their run accession / filename pair have different destination paths.
C21_OnePathOneUnit ==
  \A u, v \in TransferUnits :
    u /= v => local_path(u[1], u[2]) /= local_path(v[1], v[2])

\* C22 (as claimed): a run of the pool is reported as succeeded, whether
\* skipped or after the tool has exited with 0, only when the output
\* directory holds a file the tool writes for that same run accession.
C22_SuccessOnOwnOutput ==
  \A i \in DOMAIN futures :
    futures[i].ret = "True" => ToolFiles(runs[i]) \cap outdir /= {}

\* C23 (as claimed): every transfer unit that has left the pending state is
\* in exactly one terminal state and counted exactly once: the two file
\* counters together hold one count per transfer that was started, and the
\* result of every transfer that was started has been recorded.
C23_EveryUnitCountedOnce ==
  /\ download_summary.downloaded_files + download_summary.failed_files = started
  /\ returned = started

\* the acquisition has returned: the loops are through, every submitted
\* future has ended and been counted, and the summary file holds the summary
Returned ==
  /\ pc = "done"
  /\ si = Len(samples)
  /\ \A i \in DOMAIN futures : futures[i].st = "collected"
  /\ summary_file = download_summary

\* C24: when every call returns or times out and the threads are scheduled
\* fairly, an acquisition that has been started eventually returns: no unit
\* is pending or running any more and the summary snapshot has been written.
C24_Terminates == (pc \in {"sample", "run", "file", "pool"}) ~> Returned

\* the pool has returned after two runs, of which one failed
C24_Witness ==
  /\ Returned
  /\ Len(futures) = 2
  /\ \E i \in DOMAIN futures : futures[i].ret = "False" /\ futures[i].tool
  /\ \E i \in DOMAIN futures : futures[i].ret = "True" /\ futures[i].tool

\* the summary is the one of the NCBI downloader
RunSummary == "total_runs" \in DOMAIN download_summary

\* the futures the calling thread has counted
CollectedFutures == {i \in DOMAIN futures : futures[i].st = "collected"}

\* C25: during an acquisition the two sample counters (ENA) or the two run
\* counters (NCBI) together count the units that have been closed and never
\* exceed the total; when the acquisition returns they add up to the total.
C25_CountsConserved ==
  IF RunSummary
    THEN /\ download_summary.downloaded_runs + download_summary.failed_runs
              = Cardinality(CollectedFutures)
         /\ Cardinality(CollectedFutures) <= download_summary.total_runs
         /\ download_summary.total_runs = Len(runs)
         /\ pc = "done" =>
              download_summary.downloaded_runs + download_summary.failed_runs
                = download_summary.total_runs
    ELSE /\ download_summary.downloaded_samples + download_summary.failed_samples
              = IF pc \in {"run", "file"} THEN si - 1 ELSE si
         /\ si <= download_summary.total_samples
         /\ download_summary.total_samples = Len(samples)
         /\ pc = "done" =>
              download_summary.downloaded_samples + download_summary.failed_samples
                = download_summary.total_samples

\* an ENA acquisition has returned with one sample downloaded, one sample
\* without runs and one error
C25_Witness ==
  /\ pc = "done" /\ ~RunSummary
  /\ download_summary.total_samples = 2
  /\ download_summary.downloaded_samples = 1
  /\ download_summary.failed_samples = 1
  /\ download_summary.downloaded_files >= 1
  /\ Len(download_summary.errors) = 1

\* the step in which get_sample_runs returns an empty list for the next
\* sample, because the document holds no run or because the call failed
EmptyRunListStep ==
  /\ si' = si + 1
  /\ resolved'.op = "get_sample_runs"
  /\ resolved'.ret = "returned" /\ resolved'.n = 0

\* C26: a sample whose run resolution returns an empty list is counted in
\* failed_samples, adds exactly one entry to errors, has no transfer
\* attempted and no file touched, and leaves the loop at the next sample,
\* which is then processed or, after the last sample, the summary written.
C26_EmptyRunListFailsSample ==
  [][EmptyRunListStep =>
       /\ download_summary'.failed_samples = download_summary.failed_samples + 1
       /\ download_summary'.downloaded_samples = download_summary.downloaded_samples
       /\ download_summary'.downloaded_files = download_summary.downloaded_files
       /\ download_summary'.failed_files = download_summary.failed_files
       /\ download_summary'.errors =
            Append(download_summary.errors,
                   <<"No runs found for sample", samples[si + 1]>>)
       /\ started' = started /\ taken' = taken /\ fs' = fs
       /\ pc' = "sample"
       /\ (ENABLED BeginSample)' \/ (ENABLED EnaFinish)']_vars

\* the run resolution of the first of two samples timed out, the sample was
\* counted failed with one error, and a file of the second sample is up next
C26_Witness ==
  /\ pc = "file" /\ si = 2
  /\ download_summary.failed_samples = 1
  /\ download_summary.errors = << <<"No runs found for sample", 1>> >>
  /\ taken = 0
  /\ resolved.sample = 2 /\ resolved.kind = "ok"

\* C27: the summary is created once, when the acquisition starts; the
\* summary file is written in the step that ends the acquisition and holds
\* the summary as it is then; after that step neither the summary nor the
\* file changes, so the file equals the summary that is returned.
C27_SnapshotIsReturnedSummary ==
  /\ [](pc = "done" => summary_file = download_summary)
  /\ [][summary_file' /= summary_file =>
          /\ pc' = "done"
          /\ download_summary' = download_summary
          /\ summary_file' = download_summary]_vars
  /\ [][pc = "done" =>
          /\ download_summary' = download_summary
          /\ summary_file' = summary_file]_vars
  /\ [][pc \notin {"idle", "new"} =>
          download_summary'.project_accession
            = download_summary.project_accession]_vars

\* an acquisition of the NCBI downloader has returned a summary with a
\* downloaded run, a failed run and its error, and the file holds it
C27_Witness ==
  /\ pc = "done" /\ RunSummary
  /\ download_summary.downloaded_runs = 1
  /\ download_summary.failed_runs = 1
  /\ Len(download_summary.errors) = 1
  /\ summary_file = download_summary

\* the FILE element of the replayed hierarchy the file loop takes next
UpNext == remote[samples[si]][ri].files[fi + 1]

\* the type of the file is one of the two sequence-read formats
SequenceReadType(file_info) == file_info.filetype \in {"fastq", "fastq.gz"}

\* the file loop takes its next file
FileTaken == pc = "file" /\ taken' = taken + 1

\* C28: when the file loop takes a file whose type is no sequence-read
\* format, download_fastq_file is not called, no local file changes, and
\* the summary and the success flag of the sample stay as they are; a file
\* of a sequence-read format is handed to download_fastq_file.
C28_OnlySequenceReadFiles ==
  [][FileTaken =>
       IF SequenceReadType(UpNext)
         THEN started' = started + 1
         ELSE /\ started' = started /\ returned' = returned
              /\ fs' = fs
              /\ download_summary' = download_summary
              /\ sample_success' = sample_success
              /\ audit' = audit
              /\ pc' \in {"file", "run"}]_vars

\* the first file of the run was a bam file: the loop has gone past it with
\* no transfer, no local file and no count, and a fastq file is up next
C28_Witness ==
  /\ fixed /\ acq = 1 /\ pc = "file" /\ fi = 1
  /\ remote[1][1].files[1].filetype = "bam"
  /\ SequenceReadType(UpNext)
  /\ taken = 1 /\ started = 0
  /\ fs = EmptyDir
  /\ download_summary = NewSummary(ProjectAccession, samples)
  /\ sample_success

\* C29: a call of download_fastq_file, whether it skips, succeeds, fails,
\* times out or raises, changes no file of the fastq directory but the one
\* at its own local path, and leaves the NCBI output directory and the two
\* snapshot files as they are.
C29_TransferFrame ==
  [][call'.op = "download_fastq_file" =>
       /\ \A n \in FileNames :
            n /= local_path(call'.run_accession, call'.file_info.filename)
              => fs'[n] = fs[n]
       /\ call'.ret = "raised" => fs' = fs
       /\ outdir' = outdir
       /\ metadata_file' = metadata_file
       /\ summary_file' = summary_file]_vars

\* the transfer to a.fastq.gz timed out and its destination was removed,
\* while b.fastq.gz is still there
C29_Witness ==
  /\ call.op = "download_fastq_file" /\ call.wkind = "timeout"
  /\ call.file_info.filename = "a.fastq.gz"
  /\ call.pre \in Contents /\ fs["a.fastq.gz"] = Absent
  /\ fs["b.fastq.gz"] \in Contents
  /\ call.ret = "False"

====
